---- MODULE Spec2Model ----
(***************************************************************************)
(* Model of fastapi_ratelimiter/strategies.py: the two rate-limit          *)
(* strategies (BucketingRateLimitStrategy, SlidingWindowLimitStrategy),    *)
(* the request-identifier resolution they share, and the Redis store they  *)
(* drive through one MULTI/EXEC pipeline per evaluation.                   *)
(*                                                                         *)
(* Time is the wall clock in milliseconds.  time.time() read as seconds is *)
(* clock \div 1000, read as milliseconds it is clock.                      *)
(*                                                                         *)
(* Python values are modelled with their type where the code's behaviour   *)
(* depends on it: a value is a record [type, val]; str.join raises         *)
(* TypeError on any item that is not a str.  Where text is concatenated    *)
(* (the storage key of the bucketing strategy) a str is the sequence of    *)
(* its characters.                                                         *)
(***************************************************************************)
EXTENDS Integers, Sequences, FiniteSets, TLC

VARIABLES
    clock,      \* the wall clock, in milliseconds
    store,      \* the Redis store
    ev,         \* per process: the evaluation suspended in it, if any
    rate,       \* RateLimitConfig.from_string(rate) of the strategies
    factory,    \* the kind of the configured request_identifier_factory
    returned,   \* the evaluation that returned or raised last, as it ended
    applied,    \* history: the transactions the server ran, in order
    started,    \* history: the number of evaluations called
    pure        \* the calls of a pure function made so far, when one is run alone

vars == <<clock, store, ev, rate, factory, returned, applied, started, pure>>

----------------------------------------------------------------------------
(* Bounds of the model *)

MaxEvals == 2
MaxTicks == 2
MaxSeconds == 12
MaxWindow == 16
MaxRequests == 24

Procs == {"p1", "p2"}

(* the wall clock in milliseconds: where it starts, its advances between   *)
(* two steps, and the idle stretches: one longer than a hundred periods,   *)
(* one longer than any expiry the strategies set                           *)
StartClocks == {1000}
TickSteps == {50}
IdleSteps == {150000, 3000000}
LastClock == 1000 + 50 * MaxTicks

Idents == {"a", "b"}
NoClient == "<no client>"

MaxCounts == {1}
Periods == {1, 2}

(* the configurations and identifiers _create_storage_key is run alone with *)
KeyRates == [max_count : {1, 11}, period_in_seconds : {1}]
KeyIdents == {<<"a">>, <<"a", "1">>}

(* the limits RateLimitStatus is run alone with *)
StatusRates == [max_count : 1..5, period_in_seconds : {1}]

(* the periods _get_window is run alone with *)
WindowPeriods == {1, 2, 3, 5}

----------------------------------------------------------------------------
(* Program constants *)

DEFAULT_PREFIX == "rl:"

EXPIRATION_FUDGE == 5

NoExpiry == -1

----------------------------------------------------------------------------
(* Python values *)

Str(v) == [type |-> "str", val |-> v]

RequestObj(r) == [type |-> "Request", val |-> r]

(* the coroutine object a call of an `async def` returns when not awaited *)
CoroutineObj(name, arg) == [type |-> "coroutine", val |-> <<name, arg>>]

IntObj(n) == [type |-> "int", val |-> n]

Digit(d) ==
    CASE d = 0 -> "0" [] d = 1 -> "1" [] d = 2 -> "2" [] d = 3 -> "3" [] d = 4 -> "4"
      [] d = 5 -> "5" [] d = 6 -> "6" [] d = 7 -> "7" [] d = 8 -> "8" [] d = 9 -> "9"

(* '%d' % n and str(n) of a natural number: its decimal digits *)
RECURSIVE Digits(_)
Digits(n) == IF n < 10 THEN <<Digit(n)>> ELSE Append(Digits(n \div 10), Digit(n % 10))

(* str(x): a str stays itself, an int becomes its digits, any other object *)
(* its repr                                                                *)
PyStr(x) ==
    IF x.type = "str" THEN x
    ELSE IF x.type = "int" THEN Str(Digits(x.val))
    ELSE Str(<<"repr", x.type, x.val>>)

(* u''.join(parts): TypeError unless every item is a str *)
JoinOk(parts) == \A i \in 1..Len(parts) : parts[i].type = "str"

(* the items' characters one after the other, nothing between them *)
RECURSIVE Join(_)
Join(parts) == IF Len(parts) = 0 THEN <<>> ELSE Head(parts).val \o Join(Tail(parts))

----------------------------------------------------------------------------
(* RateLimitStatus and the outcomes of an evaluation *)

NoOutcome == [kind |-> "none", number_of_requests |-> 0, time_left |-> 0, error |-> "none"]

RateLimitStatus(n, t) ==
    [kind |-> "status", number_of_requests |-> n, time_left |-> t, error |-> "none"]

Raised(e) == [kind |-> "error", number_of_requests |-> 0, time_left |-> 0, error |-> e]

limit == rate.max_count

remaining_number_of_requests(s) == limit - s.number_of_requests

(* variant: a count equal to the limit is limited too *)
should_limit_inclusive(s) == s.number_of_requests >= limit

should_limit(s) == s.number_of_requests > limit

----------------------------------------------------------------------------
(* The Redis store.  store maps each existing key to its value: a string   *)
(* counter (val an integer) or a sorted set (val a set of [member, score]),*)
(* with the time its expiry fires (NoExpiry when it has none).             *)

Expired(st, k, now) == st[k].expireAt # NoExpiry /\ now >= st[k].expireAt

(* the keys the server still serves at time now *)
Live(st, now) == [k \in {x \in DOMAIN st : ~Expired(st, x, now)} |-> st[k]]

Without(st, k) == [x \in DOMAIN st \ {k} |-> st[x]]

With(st, k, v) == [x \in DOMAIN st \cup {k} |-> IF x = k THEN v ELSE st[x]]

ZSetOf(st, k) == IF k \in DOMAIN st THEN st[k].val ELSE {}

(* a sorted set that becomes empty is deleted by the server *)
PutZSet(st, k, z) ==
    IF z = {} THEN Without(st, k)
    ELSE With(st, k, [type |-> "zset", val |-> z,
                      expireAt |-> IF k \in DOMAIN st THEN st[k].expireAt ELSE NoExpiry])

RECURSIVE SortByScore(_)
SortByScore(z) ==
    IF z = {} THEN <<>>
    ELSE LET lo == CHOOSE e \in z : \A f \in z : e.score <= f.score
         IN <<lo.member>> \o SortByScore(z \ {lo})

(* INCR key *)
Incr(st, c, now) ==
    IF c.key \in DOMAIN st
    THEN [store |-> With(st, c.key, [st[c.key] EXCEPT !.val = @ + 1]),
          reply |-> st[c.key].val + 1]
    ELSE [store |-> With(st, c.key, [type |-> "string", val |-> 1, expireAt |-> NoExpiry]),
          reply |-> 1]

(* EXPIRE key seconds *)
Expire(st, c, now) ==
    IF c.key \in DOMAIN st
    THEN [store |-> With(st, c.key, [st[c.key] EXCEPT !.expireAt = now + c.args[1] * 1000]),
          reply |-> TRUE]
    ELSE [store |-> st, reply |-> FALSE]

(* ZREMRANGEBYSCORE key min max *)
ZRemRangeByScore(st, c, now) ==
    LET z == ZSetOf(st, c.key)
        gone == {e \in z : c.args[1] <= e.score /\ e.score <= c.args[2]}
    IN [store |-> IF gone = {} THEN st ELSE PutZSet(st, c.key, z \ gone),
        reply |-> Cardinality(gone)]

(* ZADD key {member: score}: a member already present only has its score set *)
ZAdd(st, c, now) ==
    LET z == ZSetOf(st, c.key)
        old == {e \in z : e.member = c.args[1]}
    IN [store |-> PutZSet(st, c.key, (z \ old) \cup {[member |-> c.args[1], score |-> c.args[2]]}),
        reply |-> IF old = {} THEN 1 ELSE 0]

(* ZRANGE key 0 -1 *)
ZRange(st, c, now) == [store |-> st, reply |-> SortByScore(ZSetOf(st, c.key))]

Apply(st, c, now) ==
    CASE c.op = "INCR" -> Incr(st, c, now)
      [] c.op = "EXPIRE" -> Expire(st, c, now)
      [] c.op = "ZREMRANGEBYSCORE" -> ZRemRangeByScore(st, c, now)
      [] c.op = "ZADD" -> ZAdd(st, c, now)
      [] c.op = "ZRANGE" -> ZRange(st, c, now)

(* MULTI ... EXEC: the queued commands run in order, with no other client's *)
(* command between them; the replies come back positionally                 *)
RECURSIVE RunCommands(_, _, _, _)
RunCommands(st, cmds, now, acc) ==
    IF Len(cmds) = 0 THEN [store |-> st, results |-> acc]
    ELSE LET r == Apply(st, Head(cmds), now)
         IN RunCommands(r.store, Tail(cmds), now, Append(acc, r.reply))

PipelineExecute(st, cmds, now) == RunCommands(Live(st, now), cmds, now, <<>>)

----------------------------------------------------------------------------
(* One evaluation (get_ratelimit_status) per process at a time.            *)

Strategies == {"bucketing", "sliding"}

Requests == [client : Idents \cup {NoClient}]

NoValue == [type |-> "none", val |-> "none"]

IdleEval ==
    [pc |-> "idle", strategy |-> "none", request |-> [client |-> NoClient],
     request_identifier |-> NoValue, window |-> NoValue, storage_key |-> <<>>,
     called_at |-> 0, epoch_ms |-> 0, pipe |-> <<>>, result |-> <<>>, outcome |-> NoOutcome,
     resolution |-> "pending", executes |-> 0, txFailed |-> FALSE, txIndex |-> 0]

(* the configured request_identifier_factory, called on the request: the   *)
(* caller's identifier, or a failure when the request carries none         *)
CallFactory(req) ==
    IF req.client = NoClient
    THEN [ok |-> FALSE, error |-> "IdentifierResolutionError", value |-> NoValue]
    ELSE [ok |-> TRUE, error |-> "none", value |-> Str(req.client)]

(* AbstractRateLimitStrategy._get_request_identifier: a coroutine function *)
(* as factory is never called; the method awaits the attribute             *)
(* _response_on_limit_exceeded, which no class defines                     *)
get_request_identifier(req) ==
    IF factory = "async"
    THEN [ok |-> FALSE, error |-> "AttributeError", value |-> NoValue]
    ELSE CallFactory(req)

(* BucketingRateLimitStrategy._create_storage_key, over its parts *)
safe_rate == Str(Digits(rate.max_count) \o <<"/">> \o Digits(rate.period_in_seconds) \o <<"s">>)

create_storage_key(parts) ==
    IF JoinOk(<<safe_rate>> \o parts)
    THEN [ok |-> TRUE, error |-> "none",
          key |-> <<DEFAULT_PREFIX, "md5", Join(<<safe_rate>> \o parts)>>]
    ELSE [ok |-> FALSE, error |-> "TypeError", key |-> <<>>]

(* zlib.crc32(request_identifier) of the identifiers of the model, as its  *)
(* high and low 16 bits                                                    *)
Crc32Halves(identifier) ==
    CASE identifier = "a" -> <<59575, 48707>>
      [] identifier = "b" -> <<29118, 61433>>

(* zlib.crc32(request_identifier) % period *)
Crc32Mod(identifier, period) ==
    LET h == Crc32Halves(identifier)
    IN ((h[1] % period) * (65536 % period) + h[2]) % period

(* variant: the window end is not advanced when it lies in the past *)
GetWindowNoAdvance(identifier, period, epoch_time) ==
    IF period = 1 THEN epoch_time
    ELSE epoch_time - (epoch_time % period) + Crc32Mod(identifier, period)

(* variant: the jitter is added to the reading itself, not to the edge *)
GetWindowUnaligned(identifier, period, epoch_time) ==
    IF period = 1 THEN epoch_time
    ELSE epoch_time + Crc32Mod(identifier, period)

(* variant: a window end equal to the reading is advanced too *)
GetWindowEager(identifier, period, epoch_time) ==
    IF period = 1 THEN epoch_time
    ELSE LET w == epoch_time - (epoch_time % period) + Crc32Mod(identifier, period)
         IN IF w <= epoch_time THEN w + period ELSE w

(* the body of BucketingRateLimitStrategy._get_window, with epoch_time its *)
(* reading of int(time.time())                                             *)
GetWindow(identifier, period, epoch_time) ==
    IF period = 1 THEN epoch_time
    ELSE LET w == epoch_time - (epoch_time % period) + Crc32Mod(identifier, period)
         IN IF w < epoch_time THEN w + period ELSE w

(* the commands BucketingRateLimitStrategy queues on its pipeline *)
BucketingPipe(key) ==
    << [op |-> "INCR", key |-> key, args |-> <<>>],
       [op |-> "EXPIRE", key |-> key,
        args |-> <<rate.period_in_seconds + EXPIRATION_FUDGE>>] >>

(* variant: the member does not carry the timestamp *)
FormatMemberFixed(epoch_ms) == <<0, 1>>

(* f"{epoch_ms}:1", as its ':'-separated fields *)
FormatMember(epoch_ms) == <<epoch_ms, 1>>

(* i.split(':') *)
SplitColon(member) == member

(* variant: the subtraction the other way round, so nothing is removed *)
PruneMaxReversed(epoch_ms) == (rate.period_in_seconds * 100) - epoch_ms

(* the score below which SlidingWindowLimitStrategy removes entries *)
PruneMax(epoch_ms) == epoch_ms - (rate.period_in_seconds * 100)

SlidingExpireSeconds == (rate.period_in_seconds * 1000) + 1

(* variant: the expiry is not set *)
SlidingPipeNoExpire(key, epoch_ms) ==
    << [op |-> "ZREMRANGEBYSCORE", key |-> key, args |-> <<0, PruneMax(epoch_ms)>>],
       [op |-> "ZADD", key |-> key, args |-> <<FormatMember(epoch_ms), epoch_ms>>],
       [op |-> "ZRANGE", key |-> key, args |-> <<0, -1>>] >>

(* the commands SlidingWindowLimitStrategy queues on its pipeline *)
SlidingPipe(key, epoch_ms) ==
    << [op |-> "ZREMRANGEBYSCORE", key |-> key, args |-> <<0, PruneMax(epoch_ms)>>],
       [op |-> "ZADD", key |-> key, args |-> <<FormatMember(epoch_ms), epoch_ms>>],
       [op |-> "ZRANGE", key |-> key, args |-> <<0, -1>>],
       [op |-> "EXPIRE", key |-> key, args |-> <<SlidingExpireSeconds>>] >>

(* variant: the key does not carry the identifier *)
SlidingKeyShared(identifier) == <<DEFAULT_PREFIX, ":", "">>

SlidingKey(identifier) == <<DEFAULT_PREFIX, ":", PyStr(identifier).val>>

(* sum(int(i.split(':')[-1]) for i in result[2]), the members being the   *)
(* text the strategy wrote (a client that decodes its replies)             *)
RECURSIVE SumWeights(_)
SumWeights(members) ==
    IF Len(members) = 0 THEN 0
    ELSE LET f == SplitColon(Head(members))
         IN f[Len(f)] + SumWeights(Tail(members))

----------------------------------------------------------------------------
(* Actions *)

NoPure == [kind |-> "none"]

Init ==
    /\ clock \in StartClocks
    /\ store = << >>
    /\ ev = [p \in Procs |-> IdleEval]
    /\ rate \in [max_count : MaxCounts, period_in_seconds : Periods]
    /\ factory \in {"sync", "async"}
    /\ returned = IdleEval
    /\ applied = << >>
    /\ started = 0
    /\ pure = NoPure

(* variant: a failed resolution is swallowed and a fallback identifier used *)
ResolvedWithFallback(e) ==
    LET r == get_request_identifier(e.request)
    IN IF r.ok
       THEN [e EXCEPT !.pc = "prepare", !.resolution = "ok", !.request_identifier = r.value]
       ELSE [e EXCEPT !.pc = "prepare", !.resolution = "failed",
                      !.request_identifier = Str("unknown")]

(* request_identifier = await self._get_request_identifier(request) *)
Resolved(e) ==
    LET r == get_request_identifier(e.request)
    IN IF r.ok
       THEN [e EXCEPT !.pc = "prepare", !.resolution = "ok", !.request_identifier = r.value]
       ELSE [e EXCEPT !.pc = "done", !.resolution = "failed", !.outcome = Raised(r.error)]

(* BucketingRateLimitStrategy.get_ratelimit_status up to the pipeline:     *)
(* _get_window is a coroutine function called without await, so window is  *)
(* a coroutine object; the parts joined into the key start with the        *)
(* Request object                                                          *)
BucketingPrepared(e) ==
    LET window == CoroutineObj("_get_window", e.request_identifier)
        k == create_storage_key(<<RequestObj(e.request), e.request_identifier, PyStr(window)>>)
    IN IF k.ok
       THEN [e EXCEPT !.pc = "execute", !.window = window, !.storage_key = k.key,
                      !.pipe = BucketingPipe(k.key)]
       ELSE [e EXCEPT !.pc = "done", !.outcome = Raised(k.error)]

(* SlidingWindowLimitStrategy.get_ratelimit_status up to the pipeline *)
SlidingPrepared(e, now) ==
    LET key == SlidingKey(e.request_identifier)
    IN [e EXCEPT !.pc = "execute", !.storage_key = key, !.epoch_ms = now,
                 !.pipe = SlidingPipe(key, now)]

Prepared(e, now) ==
    IF e.pc # "prepare" THEN e
    ELSE IF e.strategy = "bucketing" THEN BucketingPrepared(e)
    ELSE SlidingPrepared(e, now)

(* a request arrives and get_ratelimit_status is called on one strategy;   *)
(* it runs without suspending up to the await of the pipeline's execute,   *)
(* or raises before                                                        *)
Called(s, req, now) ==
    Prepared(Resolved([IdleEval EXCEPT !.pc = "resolve", !.strategy = s, !.request = req,
                                       !.called_at = now]), now)

Call(p, s, req) ==
    /\ ev[p].pc = "idle"
    /\ started < MaxEvals
    /\ started' = started + 1
    /\ LET e == Called(s, req, clock)
       IN IF e.pc = "done"
          THEN ev' = ev /\ returned' = e
          ELSE ev' = [ev EXCEPT ![p] = e] /\ returned' = returned
    /\ UNCHANGED <<clock, store, rate, factory, applied, pure>>

(* the code after the pipeline: the status returned to the caller *)
BucketingReturned(e, now) ==
    IF e.window.type = "int"
    THEN [e EXCEPT !.pc = "done",
                   !.outcome = RateLimitStatus(e.result[1], e.window.val - (now \div 1000))]
    ELSE [e EXCEPT !.pc = "done", !.outcome = Raised("TypeError")]

SlidingReturned(e) ==
    [e EXCEPT !.pc = "done", !.outcome = RateLimitStatus(SumWeights(e.result[3]), -1)]

Returned(e, now) ==
    IF e.strategy = "bucketing" THEN BucketingReturned(e, now) ELSE SlidingReturned(e)

Record(e) == [strategy |-> e.strategy, key |-> e.storage_key, at |-> e.called_at]

(* await pipe....execute() returns: the server ran the transaction and the *)
(* rest of get_ratelimit_status runs without suspending                    *)
Executed(e, results, index, now) ==
    Returned([e EXCEPT !.result = results, !.executes = @ + 1, !.txIndex = index], now)

Execute(p) ==
    /\ ev[p].pc = "execute"
    /\ LET r == PipelineExecute(store, ev[p].pipe, clock)
       IN /\ store' = r.store
          /\ applied' = Append(applied, Record(ev[p]))
          /\ returned' = Executed(ev[p], r.results, Len(applied) + 1, clock)
    /\ ev' = [ev EXCEPT ![p] = IdleEval]
    /\ UNCHANGED <<clock, rate, factory, started, pure>>

(* variant: a failed transaction is swallowed and the request let through *)
FailedOpen(e) ==
    [e EXCEPT !.pc = "done", !.executes = @ + 1, !.txFailed = TRUE,
              !.outcome = RateLimitStatus(0, -1)]

(* execute() raises: the redis client's error propagates out of the        *)
(* `async with` block and out of get_ratelimit_status                      *)
Failed(e) ==
    [e EXCEPT !.pc = "done", !.executes = @ + 1, !.txFailed = TRUE,
              !.outcome = Raised("StoreTransportError")]

(* the connection failed before the server ran the transaction             *)
(* (ran = FALSE) or after it did, losing the reply (ran = TRUE)            *)
ExecuteFails(p, ran) ==
    /\ ev[p].pc = "execute"
    /\ store' = IF ran THEN PipelineExecute(store, ev[p].pipe, clock).store ELSE store
    /\ applied' = IF ran THEN Append(applied, Record(ev[p])) ELSE applied
    /\ returned' = Failed(ev[p])
    /\ ev' = [ev EXCEPT ![p] = IdleEval]
    /\ UNCHANGED <<clock, rate, factory, started, pure>>

(* the wall clock advances by d milliseconds; the server drops the keys    *)
(* whose expiry has fired by then                                          *)
TimePasses(d) ==
    /\ clock' = clock + d
    /\ store' = Live(store, clock + d)
    /\ UNCHANGED <<ev, rate, factory, returned, applied, started, pure>>

(* the idle stretch the clock has been through, 0 when none *)
Idled(c) == IF \E i \in IdleSteps : i <= c
            THEN CHOOSE i \in IdleSteps : i <= c /\ \A j \in IdleSteps : j <= c => j <= i
            ELSE 0

Tick(d) ==
    /\ (clock - Idled(clock)) + d <= LastClock
    /\ TimePasses(d)

(* no request for a long stretch, while no evaluation is in flight *)
Idle(d) ==
    /\ Idled(clock) = 0
    /\ \A p \in Procs : ev[p].pc = "idle"
    /\ TimePasses(d)

Next ==
    \/ \E p \in Procs, s \in Strategies, req \in Requests : Call(p, s, req)
    \/ \E p \in Procs : Execute(p)
    \/ \E p \in Procs, ran \in BOOLEAN : ExecuteFails(p, ran)
    \/ \E d \in TickSteps : Tick(d)
    \/ \E d \in IdleSteps : Idle(d)

Spec == Init /\ [][Next]_vars

----------------------------------------------------------------------------
(* The pure functions run alone: nothing is evaluated and the store stays  *)
(* empty.                                                                  *)

Quiet ==
    /\ store = << >>
    /\ ev = [p \in Procs |-> IdleEval]
    /\ factory = "sync"
    /\ returned = IdleEval
    /\ applied = << >>
    /\ started = 0

(* _get_window awaited for one identifier at successive readings of        *)
(* int(time.time()): pure keeps the last two calls                         *)
NoCall == [at |-> 0 - 1, w |-> 0 - 1]

InitWindow ==
    /\ Quiet
    /\ clock \in StartClocks
    /\ rate \in [max_count : MaxCounts, period_in_seconds : WindowPeriods]
    /\ pure \in [kind : {"window"}, identifier : Idents, prev : {NoCall}, cur : {NoCall}]

SecondPasses ==
    /\ clock + 1000 <= 1000 * (1 + MaxSeconds)
    /\ clock' = clock + 1000
    /\ UNCHANGED <<store, ev, rate, factory, returned, applied, started, pure>>

AwaitGetWindow ==
    /\ pure' = [pure EXCEPT
                  !.prev = pure.cur,
                  !.cur = [at |-> clock \div 1000,
                           w |-> GetWindow(pure.identifier, rate.period_in_seconds,
                                           clock \div 1000)]]
    /\ UNCHANGED <<clock, store, ev, rate, factory, returned, applied, started>>

NextWindow == SecondPasses \/ AwaitGetWindow

SpecWindow == InitWindow /\ [][NextWindow]_vars

(* _create_storage_key called alone with the identifier and str(window) as *)
(* parts, on strategies of different rates: pure keeps the last two calls  *)
NoKey == [config |-> [max_count |-> 0, period_in_seconds |-> 0], identifier |-> <<>>,
          window |-> 0, derived |-> [ok |-> FALSE, error |-> "none", key |-> <<>>]]

InitKey ==
    /\ Quiet
    /\ clock \in StartClocks
    /\ rate \in KeyRates
    /\ pure = [kind |-> "key", prev |-> NoKey, cur |-> NoKey]

(* the call is made on the strategy of another rate *)
OtherStrategy(r) ==
    /\ r # rate
    /\ rate' = r
    /\ UNCHANGED <<clock, store, ev, factory, returned, applied, started, pure>>

CreateStorageKey(identifier, window) ==
    /\ pure' = [pure EXCEPT
                  !.prev = pure.cur,
                  !.cur = [config |-> rate, identifier |-> identifier, window |-> window,
                           derived |-> create_storage_key(
                                         <<Str(identifier), PyStr(IntObj(window))>>)]]
    /\ UNCHANGED <<clock, store, ev, rate, factory, returned, applied, started>>

NextKey ==
    \/ \E r \in KeyRates : OtherStrategy(r)
    \/ \E i \in KeyIdents, w \in 0..MaxWindow : CreateStorageKey(i, w)

SpecKey == InitKey /\ [][NextKey]_vars

(* a RateLimitStatus built alone and its properties read *)
InitStatus ==
    /\ Quiet
    /\ clock \in StartClocks
    /\ rate \in StatusRates
    /\ pure = [kind |-> "status", status |-> NoOutcome, remaining |-> 0, limited |-> FALSE]

ReadStatus(n, t) ==
    /\ LET st == RateLimitStatus(n, t)
       IN pure' = [kind |-> "status", status |-> st,
                   remaining |-> remaining_number_of_requests(st),
                   limited |-> should_limit(st)]
    /\ UNCHANGED <<clock, store, ev, rate, factory, returned, applied, started>>

NextStatus == \E n \in 0..MaxRequests, t \in {0 - 1} : ReadStatus(n, t)

SpecStatus == InitStatus /\ [][NextStatus]_vars

----------------------------------------------------------------------------
(* Vocabulary of the properties *)

Done == returned.pc = "done"

IsStatus == returned.outcome.kind = "status"

(* the evaluation that ended last resolved its identifier and its store    *)
(* transaction, if it ran one, did not fail                                *)
NothingFailed == Done /\ returned.resolution = "ok" /\ ~returned.txFailed

(* the transactions the server ran on key up to the n-th of the history *)
OnKey(key, n) == {i \in 1..n : applied[i].key = key}

(* the window end of a bucketing evaluation made at clock reading at *)
WindowAt(identifier, at) == GetWindow(identifier, rate.period_in_seconds, at \div 1000)

ClientOf(e) == e.request.client

----------------------------------------------------------------------------
(* C1: a bucketing evaluation made while no other evaluation is in flight, *)
(* whose resolution and store did not fail, returns a status; its count is *)
(* the number of transactions run so far on its storage key (1, 2, ..., N  *)
(* from a fresh key) and it is limited exactly when count > max_count.     *)
C1_BucketingCounts ==
    (NothingFailed /\ returned.strategy = "bucketing"
          /\ \A p \in Procs : ev[p].pc = "idle")
    => /\ IsStatus
       /\ returned.outcome.number_of_requests
            = Cardinality(OnKey(returned.storage_key, returned.txIndex))
       /\ should_limit(returned.outcome)
            <=> returned.outcome.number_of_requests > rate.max_count

(* C2: under any interleaving, a bucketing evaluation whose resolution and *)
(* store did not fail ran exactly one transaction, which is in the         *)
(* server's history as a whole, and the count it returns is the rank of    *)
(* that transaction among those on its key: no increment is lost and no    *)
(* count is returned twice.                                                *)
C2_BucketingAtomic ==
    (NothingFailed /\ returned.strategy = "bucketing")
    => /\ IsStatus
       /\ returned.executes = 1
       /\ returned.txIndex \in 1..Len(applied)
       /\ applied[returned.txIndex] = Record(returned)
       /\ returned.outcome.number_of_requests
            = 1 + Cardinality(OnKey(returned.storage_key, returned.txIndex - 1))

(* C3: a bucketing evaluation made after the window end of every earlier   *)
(* evaluation for its identifier uses a storage key none of them used and  *)
(* returns count 1.                                                        *)
C3_BucketingWindowReset ==
    (NothingFailed /\ returned.strategy = "bucketing")
    => LET id == ClientOf(returned)
           earlier == {i \in 1..Len(applied) :
                         /\ i # returned.txIndex
                         /\ applied[i].strategy = "bucketing"
                         /\ WindowAt(id, applied[i].at) < returned.called_at \div 1000}
       IN /\ IsStatus
          /\ \A i \in earlier : applied[i].key # returned.storage_key
          /\ returned.outcome.number_of_requests
               = 1 + Cardinality(OnKey(returned.storage_key, returned.txIndex - 1))
          /\ OnKey(returned.storage_key, returned.txIndex - 1) = {}
               => returned.outcome.number_of_requests = 1

(* the retention horizon the ledger is specified to have: 100 periods *)
RetentionMs == rate.period_in_seconds * 100 * 1000

PeriodMs == rate.period_in_seconds * 1000

(* the clock readings of the sliding evaluations on the key of the one     *)
(* that ended last, up to its own transaction                              *)
EventTimes == {applied[i].at : i \in OnKey(returned.storage_key, returned.txIndex)}

(* C4: a sliding evaluation returns count K when it is the K-th on its key,*)
(* the K were made at distinct times and all lie within the retention      *)
(* horizon (100 periods) before it.                                        *)
C4_SlidingAccumulates ==
    (NothingFailed /\ returned.strategy = "sliding"
        /\ Cardinality(EventTimes) = returned.txIndex
        /\ Cardinality(OnKey(returned.storage_key, returned.txIndex)) = returned.txIndex
        /\ \A t \in EventTimes : t <= returned.epoch_ms /\ t > returned.epoch_ms - RetentionMs)
    => IsStatus /\ returned.outcome.number_of_requests = returned.txIndex

(* C5: the count of a sliding evaluation is at least the number of         *)
(* distinct times within the last period at which its identifier was       *)
(* evaluated, so it is limited when those exceed max_count.                *)
C5_SlidingNeverUndercounts ==
    (Done /\ IsStatus /\ returned.strategy = "sliding")
    => LET recent == {t \in EventTimes :
                        t <= returned.epoch_ms /\ t > returned.epoch_ms - PeriodMs}
       IN /\ returned.outcome.number_of_requests >= Cardinality(recent)
          /\ Cardinality(recent) > rate.max_count => should_limit(returned.outcome)

(* C6: right after the transaction of a sliding evaluation made at time    *)
(* now, the ledger of its key holds no entry recorded more than 100        *)
(* periods before now, and its prune step leaves the ledger no larger than *)
(* it found it.                                                            *)
C6_SlidingPruning ==
    [][\A p \in Procs :
         (ev[p].pc = "execute" /\ ev[p].strategy = "sliding"
              /\ ev'[p].pc = "idle" /\ applied' # applied)
         => LET key == ev[p].storage_key
                before == Live(store, clock)
                pruned == Apply(before, ev[p].pipe[1], clock).store
            IN /\ \A e \in ZSetOf(store', key) : e.score >= ev[p].epoch_ms - RetentionMs
               /\ Cardinality(ZSetOf(pruned, key)) <= Cardinality(ZSetOf(before, key))]_vars

(* a sliding evaluation found, and removed, an entry recorded more than    *)
(* 100 periods before it whose key had not expired                         *)
C6_Witness ==
    /\ NothingFailed /\ returned.strategy = "sliding" /\ IsStatus
    /\ \E i \in OnKey(returned.storage_key, returned.txIndex - 1) :
          /\ applied[i].at < returned.epoch_ms - RetentionMs
          /\ returned.epoch_ms - applied[i].at < SlidingExpireSeconds * 1000
    /\ returned.result[1] >= 1
    /\ \A e \in ZSetOf(store, returned.storage_key) :
          e.score >= returned.epoch_ms - RetentionMs

(* C7: an evaluation whose store transaction failed ends in the store's    *)
(* error: it returns no status and has run the transaction once.           *)
C7_StoreFailureRaises ==
    /\ (Done /\ returned.txFailed)
          => /\ returned.outcome.kind = "error"
             /\ returned.outcome.error = "StoreTransportError"
             /\ returned.executes = 1
    /\ Done => returned.executes <= 1

C7_Witness ==
    /\ Done /\ returned.txFailed /\ returned.strategy = "sliding"
    /\ returned.outcome = Raised("StoreTransportError")
    /\ returned.executes = 1

(* C8: an evaluation suspended in its store transaction has resolved its   *)
(* identifier, and an evaluation whose resolution failed ended in that     *)
(* failure without having issued any store operation.                      *)
C8_ResolutionBeforeStore ==
    /\ \A p \in Procs : ev[p].pc = "execute" => ev[p].resolution = "ok"
    /\ (Done /\ returned.resolution = "failed")
          => /\ returned.outcome.kind = "error"
             /\ returned.outcome.error \in {"IdentifierResolutionError", "AttributeError"}
             /\ returned.executes = 0
             /\ returned.txIndex = 0
             /\ returned.pipe = <<>>

C8_Witness ==
    /\ Done /\ returned.resolution = "failed" /\ returned.strategy = "sliding"
    /\ returned.outcome = Raised("IdentifierResolutionError")
    /\ returned.executes = 0
    /\ DOMAIN store # {}

(* C9: an evaluation whose resolution did not fail and whose store did not *)
(* fail ends by returning a status.                                        *)
C9_DecisionAlwaysComputed == NothingFailed => IsStatus

(* C10: with a coroutine function as factory and a request it resolves,    *)
(* the evaluation ends with the identifier the factory returns for the     *)
(* request, as with a plain function.                                      *)
C10_AsyncResolver ==
    (Done /\ factory = "async" /\ ClientOf(returned) # NoClient)
    => /\ returned.resolution = "ok"
       /\ returned.request_identifier = CallFactory(returned.request).value

----------------------------------------------------------------------------
(* _get_window alone (SpecWindow) *)

Called1 == pure.kind = "window" /\ pure.cur # NoCall

Called2 == Called1 /\ pure.prev # NoCall

(* C11: the window end _get_window computes is never before the reading of *)
(* the clock it was computed from.                                         *)
C11_WindowNotPast == Called1 => pure.cur.w >= pure.cur.at

(* a call whose unadvanced edge lay in the past *)
C11_Witness ==
    /\ Called1 /\ rate.period_in_seconds > 1
    /\ pure.cur.at - (pure.cur.at % rate.period_in_seconds)
         + Crc32Mod(pure.identifier, rate.period_in_seconds) < pure.cur.at
    /\ pure.cur.w >= pure.cur.at

(* C12: a call made at or after an earlier call and not after the window   *)
(* end that call returned returns the same window end.                     *)
C12_WindowDeterministic ==
    (Called2 /\ pure.cur.at <= pure.prev.w) => pure.cur.w = pure.prev.w

(* two calls at different readings inside one window, the later at its end *)
C12_Witness ==
    /\ Called2 /\ rate.period_in_seconds > 2
    /\ pure.prev.at < pure.cur.at /\ pure.cur.at = pure.prev.w
    /\ pure.cur.w = pure.prev.w

(* C13: a call made after the window end w an earlier call returned, and   *)
(* at most one period after it, returns w + period.                        *)
C13_WindowAdvances ==
    (Called2 /\ pure.prev.w < pure.cur.at
             /\ pure.cur.at <= pure.prev.w + rate.period_in_seconds)
    => pure.cur.w = pure.prev.w + rate.period_in_seconds

(* a call a full period after the window end of the call before it *)
C13_Witness ==
    /\ Called2 /\ rate.period_in_seconds > 1
    /\ pure.cur.at = pure.prev.w + rate.period_in_seconds
    /\ pure.cur.w = pure.prev.w + rate.period_in_seconds

----------------------------------------------------------------------------
(* _create_storage_key alone (SpecKey) *)

SameInput(x, y) ==
    x.config = y.config /\ x.identifier = y.identifier /\ x.window = y.window

(* C14: of two derivations, both yield a key; the keys are the same when   *)
(* configuration, identifier and window end are the same, and different    *)
(* when any of the three differs (the hash taken as injective).            *)
C14_KeyDerivation ==
    (pure.kind = "key" /\ pure.prev # NoKey /\ pure.cur # NoKey)
    => /\ pure.prev.derived.ok /\ pure.cur.derived.ok
       /\ SameInput(pure.prev, pure.cur) => pure.prev.derived.key = pure.cur.derived.key
       /\ ~SameInput(pure.prev, pure.cur) => pure.prev.derived.key # pure.cur.derived.key

----------------------------------------------------------------------------
(* RateLimitStatus alone (SpecStatus) *)

StatusRead == pure.kind = "status" /\ pure.status.kind = "status"

(* C15: remaining and count add up to max_count, and the status is limited *)
(* exactly when its count exceeds max_count.                               *)
C15_DecisionDerivation ==
    StatusRead
    => /\ pure.remaining + pure.status.number_of_requests = rate.max_count
       /\ pure.limited <=> ~(pure.status.number_of_requests <= rate.max_count)

(* a count equal to the limit: nothing remains and it is not limited *)
C15_Witness ==
    /\ StatusRead
    /\ pure.status.number_of_requests = rate.max_count
    /\ pure.remaining = 0 /\ ~pure.limited

----------------------------------------------------------------------------
(* The strategies against the store (Spec), continued *)

(* C16: a bucketing evaluation whose resolution and store did not fail     *)
(* returns a count greater than the number of transactions run before on   *)
(* its key, hence than every count returned before in its window, and      *)
(* leaves its key with an expiry later than the window end.                *)
C16_BucketingMonotonic ==
    (NothingFailed /\ returned.strategy = "bucketing")
    => /\ IsStatus
       /\ returned.outcome.number_of_requests
            > Cardinality(OnKey(returned.storage_key, returned.txIndex - 1))
       /\ (returned.txIndex = Len(applied) /\ returned.storage_key \in DOMAIN store)
            => store[returned.storage_key].expireAt
                 > 1000 * WindowAt(ClientOf(returned), returned.called_at)

(* C17: a bucketing evaluation whose resolution and store did not fail     *)
(* returns a status with 0 <= time_left < period.                          *)
C17_BucketingTimeLeft ==
    (NothingFailed /\ returned.strategy = "bucketing")
    => /\ IsStatus
       /\ 0 <= returned.outcome.time_left
       /\ returned.outcome.time_left < rate.period_in_seconds

(* the seconds a key of the strategies lives after a transaction on it *)
TtlSeconds(k) ==
    IF store[k].type = "zset" THEN SlidingExpireSeconds
    ELSE rate.period_in_seconds + EXPIRATION_FUDGE

(* C18: every key in the store has an expiry, which has not fired and is   *)
(* at most the strategy's expiry time ahead: a key no longer evaluated is  *)
(* gone after that time.                                                   *)
C18_EveryKeyExpires ==
    \A k \in DOMAIN store :
       /\ store[k].expireAt # NoExpiry
       /\ store[k].expireAt > clock
       /\ store[k].expireAt <= clock + 1000 * TtlSeconds(k)

(* the ledgers of two identifiers, written by evaluations in flight at the *)
(* same time                                                               *)
C18_Witness ==
    /\ Cardinality(DOMAIN store) = 2
    /\ Len(applied) = 2 /\ applied[1].at = applied[2].at
    /\ \A k \in DOMAIN store : store[k].expireAt # NoExpiry

(* C19: the transaction of an evaluation for one identifier leaves the     *)
(* ledger of every other identifier, and every other key, as it was, and   *)
(* the entries it counts were all written by evaluations on its own key.   *)
C19_Isolation ==
    [][\A p \in Procs :
         (ev[p].pc = "execute" /\ ev'[p].pc = "idle")
         => LET key == ev[p].storage_key
                others == {SlidingKey(Str(b)) : b \in Idents \ {ClientOf(ev[p])}}
                             \cup ((DOMAIN store \cup DOMAIN store') \ {key})
            IN /\ \A k \in others :
                     /\ k \in DOMAIN store <=> k \in DOMAIN store'
                     /\ k \in DOMAIN store => store'[k] = store[k]
               /\ returned'.outcome.kind = "status"
                    => \A i \in 1..Len(returned'.result[3]) :
                          \E j \in 1..Len(applied') :
                             /\ applied'[j].key = key
                             /\ applied'[j].at = returned'.result[3][i][1]]_vars

(* an evaluation counted 1 while the ledger of the other identifier held   *)
(* an entry                                                                *)
C19_Witness ==
    /\ NothingFailed /\ returned.strategy = "sliding" /\ IsStatus
    /\ returned.outcome.number_of_requests = 1
    /\ returned.txIndex = 2
    /\ applied[1].key # returned.storage_key
    /\ ZSetOf(store, applied[1].key) # {}
    /\ ZSetOf(store, returned.storage_key) # {}

(* the step is the transaction of a sliding evaluation of process p that   *)
(* returns a status, the transaction the server ran before it was that of  *)
(* the sliding evaluation on the same key that returned last, and between  *)
(* the two nothing was removed from the ledger                             *)
SecondOfTwo(p) ==
    /\ ev[p].pc = "execute" /\ ev[p].strategy = "sliding" /\ ev'[p].pc = "idle"
    /\ returned'.outcome.kind = "status"
    /\ Done /\ IsStatus /\ returned.strategy = "sliding"
    /\ returned.storage_key = ev[p].storage_key
    /\ returned.txIndex = Len(applied)
    /\ Cardinality(ZSetOf(store, ev[p].storage_key)) = returned.outcome.number_of_requests
    /\ returned'.result[1] = 0

(* the ledger holds an entry of the millisecond process p read *)
SameMillisecond(p) ==
    \E e \in ZSetOf(store, ev[p].storage_key) : e.score = ev[p].epoch_ms

(* C20 as stated: the second of two such evaluations returns one more than *)
(* the first, whatever milliseconds they read.                             *)
C20_EveryEvaluationCounted ==
    [][\A p \in Procs :
         SecondOfTwo(p)
         => returned'.outcome.number_of_requests
              = returned.outcome.number_of_requests + 1]_vars

(* C20 as amended: the second returns one more than the first when the     *)
(* ledger holds no entry of the millisecond it read, and the same count    *)
(* when it does.                                                           *)
C20_CountedUnlessSameMillisecond ==
    [][\A p \in Procs :
         SecondOfTwo(p)
         => returned'.outcome.number_of_requests
              = returned.outcome.number_of_requests
                  + (IF SameMillisecond(p) THEN 0 ELSE 1)]_vars

(* two evaluations on one key at different milliseconds, the second        *)
(* returning 2                                                             *)
C20_Witness ==
    /\ NothingFailed /\ returned.strategy = "sliding" /\ IsStatus
    /\ returned.txIndex = 2 /\ Len(applied) = 2
    /\ applied[1].key = returned.storage_key
    /\ applied[1].at # applied[2].at
    /\ returned.result[1] = 0
    /\ returned.outcome.number_of_requests = 2

====
